---- MODULE Spec2Model ----
(***************************************************************************)
(* Model of python/ai_agent.py: the URL helpers (clean_url,                *)
(* extract_domain), the scraper (scrape_website), the message generator    *)
(* (generate_outreach_message) and the per-URL loop of main.               *)
(*                                                                         *)
(* A text is a sequence of tokens.  A token is one character, except that  *)
(* a literal fragment of a message template of the source is kept as one   *)
(* token.  Python values that may be None are records [t, v].              *)
(***************************************************************************)
EXTENDS Integers, Sequences, FiniteSets, TLC

\* ------------------------------------------------------------------ bounds
MaxBody == 3
MaxUrls == 2

\* ------------------------------------------------------- program constants
MinAboutLen == 50
MinMessageLen == 50
AboutLimit == 1000
ParagraphLimit == 5
MainTimeout == 15
ContactTimeout == 10

\* ------------------------------------------------------------ Python values
PyNone == [t |-> "NoneType", v |-> <<>>]
PyNaN == [t |-> "float", v |-> <<>>]
PyStr(s) == [t |-> "str", v |-> s]
\* bool(x) of an Optional[str]
Truthy(x) == x.t = "str" /\ x.v # <<>>
\* isinstance(x, str)
IsStr(x) == x.t = "str"
\* x if x else ""
OrEmpty(x) == IF Truthy(x) THEN x ELSE PyStr(<<>>)

\* ------------------------------------------------------------------- texts
IsWs(c) == c \in {" ", "\n", "\t"}

Min(S) == CHOOSE x \in S : \A y \in S : x <= y

Rep(c, n) == [j \in 1..n |-> c]

\* s.startswith(p)
StartsWith(s, p) == Len(s) >= Len(p) /\ SubSeq(s, 1, Len(p)) = p

\* s.strip()
Strip(s) ==
  IF \A j \in 1..Len(s) : IsWs(s[j]) THEN <<>>
  ELSE LET a == CHOOSE j \in 1..Len(s) :
                  ~IsWs(s[j]) /\ \A h \in 1..(j - 1) : IsWs(s[h])
           r == CHOOSE d \in 0..(Len(s) - 1) :
                  ~IsWs(s[Len(s) - d]) /\ \A h \in (Len(s) - d + 1)..Len(s) : IsWs(s[h])
       IN SubSeq(s, a, Len(s) - r)

\* s.rstrip('/')
RStripSlash(s) ==
  IF \A j \in 1..Len(s) : s[j] = "/" THEN <<>>
  ELSE LET r == CHOOSE d \in 0..(Len(s) - 1) :
                  s[Len(s) - d] # "/" /\ \A h \in (Len(s) - d + 1)..Len(s) : s[h] = "/"
       IN SubSeq(s, 1, Len(s) - r)

\* s.find(sep) + 1 (0 when sep does not occur)
Find(s, sep) ==
  LET ps == {p \in 1..(Len(s) - Len(sep) + 1) : SubSeq(s, p, p + Len(sep) - 1) = sep}
  IN IF ps = {} THEN 0 ELSE Min(ps)

\* s.split(sep)
RECURSIVE Split(_, _)
Split(s, sep) ==
  LET p == Find(s, sep)
  IN IF p = 0 THEN <<s>>
     ELSE <<SubSeq(s, 1, p - 1)>> \o Split(SubSeq(s, p + Len(sep), Len(s)), sep)

\* " ".join(parts)
RECURSIVE Join(_)
Join(parts) ==
  IF parts = <<>> THEN <<>>
  ELSE IF Len(parts) = 1 THEN parts[1]
  ELSE parts[1] \o <<" ">> \o Join(Tail(parts))

\* re.sub(r'\s+', ' ', s)
CollapseWs(s) ==
  LET marked == [j \in 1..Len(s) |->
                   [c |-> s[j], first |-> (j = 1 \/ ~IsWs(s[j - 1]))]]
      kept == SelectSeq(marked, LAMBDA e : ~IsWs(e.c) \/ e.first)
  IN [j \in 1..Len(kept) |-> IF IsWs(kept[j].c) THEN " " ELSE kept[j].c]

\* s[:n]
Truncate(s, n) == SubSeq(s, 1, IF Len(s) < n THEN Len(s) ELSE n)

\* --------------------------------------------------------------------- URLs
HTTP == <<"h", "t", "t", "p", ":", "/", "/">>
HTTPS == <<"h", "t", "t", "p", "s", ":", "/", "/">>

\* url.startswith(('http://', 'https://'))
HasScheme(s) == StartsWith(s, HTTP) \/ StartsWith(s, HTTPS)

\* clean_url without the strip of line 41 before the prefix is added
clean_url_keep_ws(u) ==
  IF ~HasScheme(Strip(u)) THEN HTTPS \o u ELSE u

clean_url(u) ==
  LET s == Strip(u)
  IN IF ~HasScheme(s) THEN HTTPS \o s ELSE s

\* extract_domain without the strip of line 29
extract_domain_no_strip(u) ==
  LET s == IF ~HasScheme(u) THEN HTTPS \o u ELSE u
      parts == Split(s, <<"/", "/">>)
  IN IF Len(parts) < 2 THEN s ELSE Split(parts[2], <<"/">>)[1]

extract_domain(u) ==
  LET s0 == Strip(u)
      s == IF ~HasScheme(s0) THEN HTTPS \o s0 ELSE s0
      parts == Split(s, <<"/", "/">>)
  IN IF Len(parts) < 2 THEN s ELSE Split(parts[2], <<"/">>)[1]

\* ------------------------------------------------------------ the simulated web
\* A tag found by soup.find(...), with the texts of the <p> elements inside it.
Tag(ps) == [t |-> "Tag", v |-> ps]

E1 == <<"i", "@", "a", ".", "c", "o">>
E2 == <<"j", "@", "a", ".", "c", "o">>
E3 == <<"k", "@", "b", ".", "c", "o">>
P1 == <<"5", "5", "5", "-", "1", "2", "3", "-", "4", "5", "6", "7">>

\* A response of the main page: ok is status < 400, emails and phones are what
\* re.findall gives on response.text, the rest is what BeautifulSoup finds.
MkPage(em, ph, meta, lay) ==
  [ok |-> TRUE, emails |-> em, phones |-> ph, meta |-> meta,
   section_id |-> lay[1], div_id |-> lay[2], div_class |-> lay[3],
   main |-> lay[4], article |-> lay[5], body |-> lay[6]]

ShortPara == <<"a", "b", " ", "\n", "\t", "c">>
LongPara == Rep("w", MinAboutLen)
OverPara == Rep("x", AboutLimit - 1) \o <<" ", " ", "y", "y">>
ManyParas == <<<<"1">>, <<"2", " ">>, <<" ", "3">>, <<>>, <<"5">>, <<"6">>>>

NoTags == <<PyNone, PyNone, PyNone, PyNone, PyNone, PyNone>>

\* <<meta description, the six containers>>
Shapes ==
  { <<PyNone, NoTags>>,
    <<PyStr(<<" ", " ">>), NoTags>>,
    <<PyStr(<<>>), <<PyNone, PyNone, PyNone, PyNone, PyNone, Tag(ManyParas)>>>>,
    <<PyStr(<<" ", "m", " ", " ", "d">>),
      <<Tag(<<LongPara>>), Tag(<<ShortPara>>), PyNone, Tag(<<ShortPara>>), PyNone, Tag(ManyParas)>>>>,
    <<PyStr(OverPara),
      <<PyNone, Tag(<<>>), Tag(<<LongPara>>), PyNone, PyNone, Tag(ManyParas)>>>>,
    <<PyNone,
      <<PyNone, PyNone, Tag(<<ShortPara, OverPara>>), PyNone, Tag(<<LongPara>>), PyNone>>>>,
    <<PyNone,
      <<PyNone, PyNone, PyNone, Tag(<<ShortPara, LongPara>>), Tag(<<OverPara>>), Tag(ManyParas)>>>>,
    <<PyStr(<<" ", "m", " ", " ", "d">>),
      <<PyNone, PyNone, PyNone, PyNone, Tag(<<LongPara, ShortPara>>), Tag(ManyParas)>>>> }

\* <<emails, phones>>
Contacts == { <<<<>>, <<>>>>, <<<<>>, <<P1>>>>, <<<<E1, E2>>, <<P1>>>> }

RichPages ==
  {MkPage(c[1], c[2], sh[1], sh[2]) : c \in Contacts, sh \in Shapes}

SmallPages ==
  { MkPage(<<E1, E2>>, <<P1>>, PyStr(<<"m", "d">>), NoTags),
    MkPage(<<>>, <<>>, PyNone,
           <<Tag(<<LongPara>>), PyNone, PyNone, PyNone, PyNone, PyNone>>),
    MkPage(<<>>, <<P1>>, PyNone, NoTags) }

\* What a GET of a contact page can give: ok is contact_response.ok, emails is
\* what re.findall gives on contact_response.text.
\* err is requests.get raising (connection error, timeout).
ContactOutcomes ==
  { [err |-> TRUE, ok |-> FALSE, emails |-> <<>>],
    [err |-> FALSE, ok |-> FALSE, emails |-> <<E3>>],
    [err |-> FALSE, ok |-> TRUE, emails |-> <<>>],
    [err |-> FALSE, ok |-> TRUE, emails |-> <<E3, E1>>] }

NoResponse == [err |-> FALSE, ok |-> FALSE, emails |-> <<>>]

\* contact_response.ok and a match of the email pattern in contact_response.text
ProbeFound(out) == ~out.err /\ out.ok /\ out.emails # <<>>

NoPage ==
  [MkPage(<<>>, <<>>, PyNone, NoTags) EXCEPT !.ok = FALSE]

\* The ways the GET of the main page fails: requests.get raises, or
\* raise_for_status raises on a 4xx/5xx status.
FetchFailures == {"error", "http_error"}

\* --------------------------------------------------------------- scrape_website
\* the about pages probed before the contact pages
contact_paths_swapped ==
  << <<"/", "a", "b", "o", "u", "t">>,
     <<"/", "a", "b", "o", "u", "t", "-", "u", "s">>,
     <<"/", "c", "o", "n", "t", "a", "c", "t">>,
     <<"/", "c", "o", "n", "t", "a", "c", "t", "-", "u", "s">> >>

contact_paths ==
  << <<"/", "c", "o", "n", "t", "a", "c", "t">>,
     <<"/", "c", "o", "n", "t", "a", "c", "t", "-", "u", "s">>,
     <<"/", "a", "b", "o", "u", "t">>,
     <<"/", "a", "b", "o", "u", "t", "-", "u", "s">> >>

contact_url(u, n) == RStripSlash(u) \o contact_paths[n]

\* xs[0] if xs else None
FirstOrNone(xs) == IF xs # <<>> THEN PyStr(xs[1]) ELSE PyNone

\* a or b or c, for tags (a Tag is always true)
FirstTag(ts) ==
  IF ts[1].t = "Tag" THEN ts[1] ELSE IF ts[2].t = "Tag" THEN ts[2] ELSE ts[3]

\* extract_about that trims but does not collapse the whitespace runs
extract_about_no_collapse(page) ==
  LET a0 == IF Truthy(page.meta) THEN page.meta.v \o <<" ">> ELSE <<>>
      about_section == FirstTag(<<page.section_id, page.div_id, page.div_class>>)
      main_content == FirstTag(<<page.main, page.article, page.body>>)
      a1 == IF about_section.t = "Tag" THEN a0 \o Join(about_section.v)
            ELSE IF main_content.t = "Tag"
                 THEN a0 \o Join(Truncate(main_content.v, ParagraphLimit))
                 ELSE a0
  IN Truncate(Strip(a1), AboutLimit)

extract_about(page) ==
  LET a0 == IF Truthy(page.meta) THEN page.meta.v \o <<" ">> ELSE <<>>
      about_section == FirstTag(<<page.section_id, page.div_id, page.div_class>>)
      main_content == FirstTag(<<page.main, page.article, page.body>>)
      a1 == IF about_section.t = "Tag" THEN a0 \o Join(about_section.v)
            ELSE IF main_content.t = "Tag"
                 THEN a0 \o Join(Truncate(main_content.v, ParagraphLimit))
                 ELSE a0
  IN Truncate(Strip(CollapseWs(a1)), AboutLimit)

\* ----------------------------------------------------- generate_outreach_message
Placeholder(website) ==
  <<"This is for ">> \o website
    \o <<", but I couldn't extract much information about them.">>

PromptAbout(about) ==
  IF ~Truthy(about) \/ Len(about.v) < MinAboutLen THEN "placeholder" ELSE "about_text"

Prompt(website, about) ==
  <<"Create a personalized cold outreach email message for the website ">>
    \o website \o <<"About the business:">>
    \o (IF PromptAbout(about) = "placeholder" THEN Placeholder(website) ELSE about.v)
    \o <<"The message should:",
         "- Be 3-4 paragraphs, professional but conversational in tone",
         "- Include a brief introduction and reason for reaching out",
         "- Reference specific elements from their business/website",
         "- Suggest a potential collaboration or service that would benefit them",
         "- Include a clear call to action",
         "- Have a professional sign-off",
         "- Be about 150-200 words total",
         "- DO NOT include email subject line or greeting (like \"Dear...\" or \"Hello...\")",
         "Output only the message body, nothing else.">>

DefaultMessage(website) ==
  Strip(<<"\n", " ", "I came across ">> \o website
    \o <<" and was impressed by your offerings. Our agency specializes in helping businesses like yours increase online visibility and generate more leads.",
         "\n", "\n",
         "Based on my quick analysis, there are some untapped opportunities for growing your digital presence that we've successfully implemented with similar companies in your industry.",
         "\n", "\n",
         "I'd love to share some specific ideas tailored to your business. Would you be open to a brief 15-minute call next week to discuss how we might be able to help?",
         "\n", "\n",
         "Looking forward to connecting.", "\n", " ">>)

FallbackMessage(website) ==
  Strip(<<"\n", " ", "I recently discovered ">> \o website
    \o <<" and wanted to reach out because I believe our services could be valuable to your business. ",
         "\n", "\n",
         "We help companies like yours improve their online presence and generate more qualified leads through targeted digital marketing strategies.",
         "\n", "\n",
         "Would you be open to a quick conversation to explore if there might be a good fit? I'd be happy to share some ideas specific to your industry.",
         "\n", "\n",
         "Best regards,", "\n", " ">>)

\* What the POST to the chat-completions endpoint can give.
ApiKinds == {"network_error", "http_error", "bad_json", "bad_shape", "null_content"}

ApiContents ==
  { <<>>, <<" ", "\n">>, <<" ", "o", "k", " ">>,
    Rep("z", MinMessageLen - 1),
    <<" ">> \o Rep("z", MinMessageLen - 1) \o <<"\n">>,
    Rep("z", MinMessageLen),
    <<"\n">> \o Rep("z", MinMessageLen) \o <<" ">> }

ApiOutcomes ==
  {[kind |-> kd, content |-> <<>>] : kd \in ApiKinds}
    \cup {[kind |-> "content", content |-> c] : c \in ApiContents}

Raised == [exc |-> TRUE, v |-> <<>>]
Returned(x) == [exc |-> FALSE, v |-> x]

\* A try block in which output that is too short raises, so that the except
\* clause answers it.
generate_try_short_raises(website, about, api) ==
  IF api.kind # "content" THEN Raised
  ELSE LET outreach_message == Strip(api.content)
       IN IF outreach_message = <<>> \/ Len(outreach_message) < MinMessageLen
          THEN Raised
          ELSE Returned(outreach_message)

\* The body of the try block.
generate_try(website, about, api) ==
  IF api.kind # "content" THEN Raised
  ELSE LET outreach_message == Strip(api.content)
       IN IF outreach_message = <<>> \/ Len(outreach_message) < MinMessageLen
          THEN Returned(DefaultMessage(website))
          ELSE Returned(outreach_message)

\* generate_outreach_message without its except clause
generate_no_except(website, about, api) == generate_try(website, about, api)

generate_outreach_message(website, about, api) ==
  LET r == generate_try(website, about, api)
  IN IF r.exc THEN Returned(FallbackMessage(website)) ELSE r

\* scrape_website without its except clause
scrape_no_except(r) == r

\* The except clause of scrape_website.
scrape_except(r) ==
  IF r.exc THEN Returned(<<PyNone, PyNone, PyNone>>) ELSE r

\* ------------------------------------------------------------------ the state
VARIABLES
  web,              \* the pages the simulated web serves for a main-page GET
  urls,             \* main: the first column of the input sheet
  i,                \* main: how many entries of urls the loop has taken
  pc,               \* main: where the run is
  results, processed_count, contacts_found,
  domain, email, phone, about_text,
  stats,            \* the JSON printed at the end
  url, response, s_email, k,                     \* the frame of scrape_website
  net,              \* the requests and sleeps issued for the URL in progress
  obs,              \* what the scrape of the URL in progress met
  raw, cleaned, cleaned2, dom, dom_pref, dom_trim, upc,   \* the URL helpers alone
  g_website, g_about, g_prompt, g_api, g_ret, gpc         \* the generator alone

mainVars == <<urls, i, pc, results, processed_count, contacts_found,
              domain, email, phone, about_text, stats>>
frameVars == <<url, response, s_email, k>>
runVars == <<web, mainVars, frameVars, net, obs>>
urlVars == <<raw, cleaned, cleaned2, dom, dom_pref, dom_trim, upc>>
genVars == <<g_website, g_about, g_prompt, g_api, g_ret, gpc>>
vars == <<runVars, urlVars, genVars>>

\* url: the URL requested; fetch: how the GET of the main page ended; raised:
\* where the try block raised; main_email: the email of the main page; email,
\* phone: what was found before the call ended; last: the latest contact-page
\* response; returned: the call has ended.
NoObs ==
  [url |-> <<>>, fetch |-> "none", raised |-> "none", main_email |-> PyNone,
   email |-> PyNone, phone |-> PyNone, last |-> NoResponse, returned |-> FALSE]
NoStats == [processedCount |-> -1, contactsFound |-> -1]

\* secs is the timeout of a request and the length of a sleep; the POST has
\* no timeout.
Get(u, timeout) == [op |-> "GET", arg |-> u, secs |-> timeout]
Post(prompt) == [op |-> "POST", arg |-> prompt, secs |-> 0]
Sleep(d) == [op |-> "sleep", arg |-> <<>>, secs |-> d]

\* random.uniform(1, 3), to the second
ThrottleDelays == 1..3

Body == {"a", "/", " "}

RECURSIVE SeqsUpTo(_, _)
SeqsUpTo(S, n) ==
  IF n = 0 THEN {<<>>}
  ELSE LET shorter == SeqsUpTo(S, n - 1)
       IN shorter \cup {Append(s, c) : s \in {t \in shorter : Len(t) = n - 1}, c \in S}

Prefixes ==
  { <<>>, HTTP, HTTPS, <<" ">> \o HTTPS, <<"h", "t", "t", "p", ":", "/">>,
    <<"H", "T", "T", "P", "S", ":", "/", "/">> }

UrlInputs == {p \o b : p \in Prefixes, b \in SeqsUpTo(Body, MaxBody)}

RunUrls == {<<"a", ".", "c", "o">>, <<" ", "b", ".", "c", "o", "/", "x", "/">>}

Entries == {PyNaN} \cup {PyStr(u) : u \in RunUrls}

UrlIdle ==
  /\ raw = <<>> /\ cleaned = <<>> /\ cleaned2 = <<>>
  /\ dom = <<>> /\ dom_pref = <<>> /\ dom_trim = <<>> /\ upc = "idle"

GenIdle ==
  /\ g_website = <<>> /\ g_about = PyNone /\ g_prompt = <<>>
  /\ g_api = [kind |-> "none", content |-> <<>>]
  /\ g_ret = Returned(<<>>) /\ gpc = "idle"

RunStart ==
  /\ i = 0 /\ pc = "start" /\ results = <<>>
  /\ processed_count = 0 /\ contacts_found = 0
  /\ domain = PyNone /\ email = PyNone /\ phone = PyNone /\ about_text = PyNone
  /\ stats = NoStats
  /\ url = <<>> /\ response = NoPage /\ s_email = PyNone /\ k = 0
  /\ net = <<>> /\ obs = NoObs

Init ==
  /\ web = SmallPages
  /\ urls \in SeqsUpTo(Entries, MaxUrls)
  /\ RunStart /\ UrlIdle /\ GenIdle

InitScrape ==
  /\ web = RichPages
  /\ urls \in {<<PyStr(u)>> : u \in RunUrls} \cup {<<PyNaN, PyStr(u)>> : u \in RunUrls}
  /\ RunStart /\ UrlIdle /\ GenIdle

\* ------------------------------------------------------------------------ main
\* The row appended to results; AboutText and OutreachMessage are the keys
\* 'About Text' and 'Outreach Message'.
Record(u, d, e, p, a, m) ==
  [Website |-> u, Domain |-> d, Email |-> OrEmpty(e), Phone |-> OrEmpty(p),
   AboutText |-> OrEmpty(a), OutreachMessage |-> m]

FrameGone ==
  /\ url' = <<>> /\ response' = NoPage /\ s_email' = PyNone /\ k' = 0

\* if df.empty: raise ValueError
Start ==
  /\ pc = "start"
  /\ pc' = IF urls = <<>> THEN "failed" ELSE "loop"
  /\ UNCHANGED <<web, urls, i, results, processed_count, contacts_found, domain,
                 email, phone, about_text, stats, frameVars, net, obs, urlVars, genVars>>

Skip ==
  /\ pc = "loop" /\ i < Len(urls) /\ ~IsStr(urls[i + 1])
  /\ i' = i + 1
  /\ UNCHANGED <<web, urls, pc, results, processed_count, contacts_found, domain,
                 email, phone, about_text, stats, frameVars, net, obs, urlVars, genVars>>

\* The loop body up to the GET of the main page.
Take ==
  /\ pc = "loop" /\ i < Len(urls) /\ IsStr(urls[i + 1])
  /\ i' = i + 1
  /\ processed_count' = processed_count + 1
  /\ domain' = PyStr(extract_domain(urls[i + 1].v))
  /\ url' = clean_url(urls[i + 1].v)
  /\ net' = <<Get(url', MainTimeout)>>
  /\ obs' = [NoObs EXCEPT !.url = url']
  /\ pc' = "main_get"
  /\ UNCHANGED <<web, urls, results, contacts_found, email, phone, about_text, stats,
                 response, s_email, k, urlVars, genVars>>

\* A loop body that counts a contact only when an email was found.
AfterScrape_email_only(e, p, a) ==
  /\ email' = e /\ phone' = p /\ about_text' = a
  /\ contacts_found' = IF Truthy(e) THEN contacts_found + 1 ELSE contacts_found
  /\ IF Truthy(a)
     THEN /\ net' = Append(net, Post(Prompt(domain.v, a)))
          /\ pc' = "generate"
          /\ UNCHANGED results
     ELSE /\ results' = Append(results, Record(urls[i], domain, e, p, a, PyStr(<<>>)))
          /\ pc' = "throttle"
          /\ UNCHANGED net

\* The loop body from the return of scrape_website to the POST, or to the
\* record when no message is generated.
AfterScrape(e, p, a) ==
  /\ email' = e /\ phone' = p /\ about_text' = a
  /\ contacts_found' = IF Truthy(e) \/ Truthy(p) THEN contacts_found + 1
                       ELSE contacts_found
  /\ IF Truthy(a)
     THEN /\ net' = Append(net, Post(Prompt(domain.v, a)))
          /\ pc' = "generate"
          /\ UNCHANGED results
     ELSE /\ results' = Append(results, Record(urls[i], domain, e, p, a, PyStr(<<>>)))
          /\ pc' = "throttle"
          /\ UNCHANGED net

\* What the caller does with what scrape_website gives: an exception leaves
\* the loop for the except clause of main.
Return(r) ==
  /\ FrameGone
  /\ IF r.exc
     THEN /\ pc' = "failed"
          /\ UNCHANGED <<email, phone, about_text, contacts_found, results, net>>
     ELSE AfterScrape(r.v[1], r.v[2], r.v[3])
  /\ UNCHANGED <<web, urls, i, processed_count, domain, stats, urlVars, genVars>>

\* Phone and about text, once the email is settled; boom is an exception
\* raised while the about text is extracted.
Extract(page, em, out, boom) ==
  LET ph == FirstOrNone(page.phones)
      r == IF boom THEN Raised
           ELSE Returned(<<em, ph, PyStr(extract_about(page))>>)
  IN /\ obs' = [obs EXCEPT !.fetch = "ok", !.raised = IF boom THEN "extract" ELSE "none",
                           !.main_email = FirstOrNone(page.emails),
                           !.email = em, !.phone = ph, !.last = out, !.returned = TRUE]
     /\ Return(scrape_except(r))

\* A fetch that sleeps 2^attempt seconds and asks again, three times in all.
MainFail_retry ==
  /\ pc = "main_get"
  /\ \E f \in FetchFailures :
       IF Len(net) < 5
       THEN /\ net' = net \o <<Sleep(2 ^ ((Len(net) - 1) \div 2)), Get(url, MainTimeout)>>
            /\ UNCHANGED <<web, mainVars, frameVars, obs, urlVars, genVars>>
       ELSE /\ obs' = [obs EXCEPT !.fetch = f, !.raised = "fetch", !.returned = TRUE]
            /\ Return(scrape_except(Raised))

\* The GET of the main page raises, or raise_for_status does: the except
\* clause of scrape_website answers, and the loop body goes on.
MainFail ==
  /\ pc = "main_get"
  /\ \E f \in FetchFailures :
       /\ obs' = [obs EXCEPT !.fetch = f, !.raised = "fetch", !.returned = TRUE]
       /\ Return(scrape_except(Raised))

MainOk ==
  /\ pc = "main_get"
  /\ \E page \in web :
       \/ /\ obs' = [obs EXCEPT !.fetch = "ok", !.raised = "parse", !.returned = TRUE]
          /\ Return(scrape_except(Raised))
       \/ /\ page.emails # <<>>
          /\ \E boom \in BOOLEAN :
               Extract(page, FirstOrNone(page.emails), NoResponse, boom)
       \/ /\ page.emails = <<>>
          /\ response' = page
          /\ s_email' = PyNone
          /\ k' = 1
          /\ net' = Append(net, Get(contact_url(url, 1), ContactTimeout))
          /\ obs' = [obs EXCEPT !.fetch = "ok"]
          /\ pc' = "probe"
          /\ UNCHANGED <<web, urls, i, results, processed_count, contacts_found, domain,
                         email, phone, about_text, stats, url, urlVars, genVars>>

Probe ==
  /\ pc = "probe"
  /\ \E out \in ContactOutcomes :
       \/ /\ ProbeFound(out)
          /\ \E boom \in BOOLEAN : Extract(response, PyStr(out.emails[1]), out, boom)
       \/ /\ ~ProbeFound(out) /\ k < Len(contact_paths)
          /\ k' = k + 1
          /\ obs' = [obs EXCEPT !.last = out]
          /\ net' = Append(net, Get(contact_url(url, k + 1), ContactTimeout))
          /\ UNCHANGED <<web, mainVars, url, response, s_email, urlVars, genVars>>
       \/ /\ ~ProbeFound(out) /\ k = Len(contact_paths)
          /\ \E boom \in BOOLEAN : Extract(response, s_email, out, boom)

Generate ==
  /\ pc = "generate"
  /\ \E api \in ApiOutcomes :
       LET m == generate_outreach_message(domain.v, about_text, api)
       IN IF m.exc
          THEN pc' = "failed" /\ UNCHANGED results
          ELSE /\ results' = Append(results,
                      Record(urls[i], domain, email, phone, about_text, PyStr(m.v)))
               /\ pc' = "throttle"
  /\ UNCHANGED <<web, urls, i, processed_count, contacts_found, domain,
                 email, phone, about_text, stats, frameVars, net, obs, urlVars, genVars>>

\* time.sleep(random.uniform(1, 3))
Throttle ==
  /\ pc = "throttle"
  /\ \E d \in ThrottleDelays : net' = Append(net, Sleep(d))
  /\ pc' = "loop"
  /\ UNCHANGED <<web, urls, i, results, processed_count, contacts_found, domain,
                 email, phone, about_text, stats, frameVars, obs, urlVars, genVars>>

\* After the loop: the sheet is written and the stats are printed, or the
\* write raises.
Finish ==
  /\ pc = "loop" /\ i = Len(urls)
  /\ \/ /\ pc' = "done"
        /\ stats' = [processedCount |-> processed_count, contactsFound |-> contacts_found]
     \/ /\ pc' = "failed"
        /\ UNCHANGED stats
  /\ UNCHANGED <<web, urls, i, results, processed_count, contacts_found, domain,
                 email, phone, about_text, frameVars, net, obs, urlVars, genVars>>

Next ==
  Start \/ Skip \/ Take \/ MainFail \/ MainOk \/ Probe \/ Generate \/ Throttle \/ Finish

Spec == Init /\ [][Next]_vars

SpecScrape == InitScrape /\ [][Next]_vars

\* ------------------------------------------------------- the URL helpers alone
InitUrl ==
  /\ web = SmallPages /\ urls = <<>> /\ RunStart /\ GenIdle
  /\ raw \in UrlInputs
  /\ cleaned = <<>> /\ cleaned2 = <<>>
  /\ dom = <<>> /\ dom_pref = <<>> /\ dom_trim = <<>> /\ upc = "clean"

Clean ==
  /\ upc = "clean"
  /\ cleaned' = clean_url(raw)
  /\ upc' = "reclean"
  /\ UNCHANGED <<raw, cleaned2, dom, dom_pref, dom_trim, runVars, genVars>>

Reclean ==
  /\ upc = "reclean"
  /\ cleaned2' = clean_url(cleaned)
  /\ upc' = "domain"
  /\ UNCHANGED <<raw, cleaned, dom, dom_pref, dom_trim, runVars, genVars>>

Domain ==
  /\ upc = "domain"
  /\ dom' = extract_domain(raw)
  /\ dom_pref' = extract_domain(HTTPS \o raw)
  /\ dom_trim' = extract_domain(HTTPS \o Strip(raw))
  /\ upc' = "done"
  /\ UNCHANGED <<raw, cleaned, cleaned2, runVars, genVars>>

NextUrl == Clean \/ Reclean \/ Domain

SpecUrl == InitUrl /\ [][NextUrl]_vars

\* --------------------------------------------------------- the generator alone
Websites == {<<>>, <<"a", ".", "c", "o">>, <<" ", "b", ".", "c", "o">>}

Abouts ==
  { PyNone, PyStr(<<>>), PyStr(<<"h", "i">>), PyStr(Rep("w", MinAboutLen - 1)),
    PyStr(Rep("w", MinAboutLen)), PyStr(Rep("w", MinAboutLen + 1)) }

InitGen ==
  /\ web = SmallPages /\ urls = <<>> /\ RunStart /\ UrlIdle
  /\ g_website \in Websites /\ g_about \in Abouts
  /\ g_prompt = <<>>
  /\ g_api = [kind |-> "none", content |-> <<>>]
  /\ g_ret = Returned(<<>>) /\ gpc = "call"

GenPost ==
  /\ gpc = "call"
  /\ g_prompt' = Prompt(g_website, g_about)
  /\ gpc' = "posted"
  /\ UNCHANGED <<g_website, g_about, g_api, g_ret, runVars, urlVars>>

GenResponse ==
  /\ gpc = "posted"
  /\ \E api \in ApiOutcomes :
       /\ g_api' = api
       /\ g_ret' = generate_outreach_message(g_website, g_about, api)
  /\ gpc' = "returned"
  /\ UNCHANGED <<g_website, g_about, g_prompt, runVars, urlVars>>

NextGen == GenPost \/ GenResponse

SpecGen == InitGen /\ [][NextGen]_vars

\* ================================================================== the claims

\* ------------------------------------------------------------------ C7, C8
LeadingWs(s) == s # <<>> /\ IsWs(s[1])

\* The part of c after its first // and before the next /.
AfterSlashes(c) ==
  LET p == Min({q \in 1..(Len(c) - 1) : c[q] = "/" /\ c[q + 1] = "/"})
      rest == SubSeq(c, p + 2, Len(c))
      qs == {q \in 1..Len(rest) : rest[q] = "/"}
  IN IF qs = {} THEN rest ELSE SubSeq(rest, 1, Min(qs) - 1)

\* C7: clean_url gives https:// followed by the trimmed input when the trimmed
\* input starts with neither http:// nor https://, gives the trimmed input
\* itself when it does, and clean_url of the result is the result again.
C7_Normalize ==
  /\ upc \in {"reclean", "domain", "done"} =>
       /\ ~HasScheme(Strip(raw)) => cleaned = HTTPS \o Strip(raw)
       /\ HasScheme(Strip(raw)) => cleaned = Strip(raw)
       /\ HasScheme(raw) /\ Strip(raw) = raw => cleaned = raw
  /\ upc \in {"domain", "done"} => cleaned2 = cleaned

C7_Witness ==
  /\ upc = "done" /\ LeadingWs(raw) /\ ~HasScheme(Strip(raw)) /\ Strip(raw) # <<>>
  /\ cleaned = HTTPS \o Strip(raw) /\ cleaned2 = cleaned

\* C8 as claimed: for every input x without a scheme, extract_domain(x) is
\* extract_domain("https://" + x).
C8_Original ==
  upc = "done" /\ ~HasScheme(Strip(raw)) => dom = dom_pref

\* C8 as amended: extract_domain gives the part of the normalized URL after
\* its first // and before the next /; for an input x without a scheme that is
\* extract_domain("https://" + x.strip()), and extract_domain("https://" + x)
\* when x does not begin with whitespace.
C8_Domain ==
  upc = "done" =>
    /\ dom = AfterSlashes(cleaned)
    /\ ~HasScheme(Strip(raw)) => dom = dom_trim
    /\ ~HasScheme(Strip(raw)) /\ ~LeadingWs(raw) => dom = dom_pref

C8_Witness ==
  /\ upc = "done" /\ ~HasScheme(raw) /\ ~LeadingWs(raw)
  /\ Find(raw, <<"/">>) > 1
  /\ dom = SubSeq(raw, 1, Find(raw, <<"/">>) - 1) /\ dom = dom_pref

\* ------------------------------------------------------------------ C3, C4
ApiFailed == g_api.kind \in ApiKinds

OutputTooShort ==
  g_api.kind = "content" /\ Len(Strip(g_api.content)) < MinMessageLen

\* C3: generate_outreach_message raises nothing and gives a message that is
\* not empty, whatever the about text and whatever the API answers; when the
\* API call fails the message is the fallback text, which names the website.
C3_NeverRaises ==
  gpc = "returned" =>
    /\ ~g_ret.exc
    /\ g_ret.v # <<>>
    /\ ApiFailed =>
         /\ g_ret.v = FallbackMessage(g_website)
         /\ g_ret.v[1] = "I recently discovered "
         /\ SubSeq(g_ret.v, 2, 1 + Len(g_website)) = g_website

C3_Witness ==
  /\ gpc = "returned" /\ g_about = PyNone /\ g_api.kind = "bad_json"
  /\ g_website # <<>> /\ g_ret.v = FallbackMessage(g_website)

\* C4 as claimed: the message given for API output that is too short is the
\* message given when the API call raises.
C4_Original ==
  gpc = "returned" /\ OutputTooShort =>
    g_ret = generate_outreach_message(g_website, g_about,
                                      [kind |-> "network_error", content |-> <<>>])

\* C4 as amended: each kind of failure gives a fixed message that names the
\* website: a failed API call (network error, non-2xx, malformed JSON) gives
\* the fallback text of the except clause, and output that is empty or shorter
\* than 50 characters gives the default text of the try block, which is a
\* different text.
C4_Canned ==
  gpc = "returned" =>
    /\ ApiFailed => g_ret = Returned(FallbackMessage(g_website))
    /\ OutputTooShort =>
         /\ g_ret = Returned(DefaultMessage(g_website))
         /\ g_ret.v[1] = "I came across "
         /\ SubSeq(g_ret.v, 2, 1 + Len(g_website)) = g_website
         /\ g_ret.v # FallbackMessage(g_website)

C4_Witness ==
  /\ gpc = "returned" /\ OutputTooShort /\ Strip(g_api.content) # <<>>
  /\ g_ret.v = DefaultMessage(g_website)

\* --------------------------------------------------- C1, C9, C10 (scrape_website)
IsGet(ev) == ev.op = "GET"

\* C1 as claimed: when the GET of the main page fails, the fetch makes three
\* attempts, sleeps 2^0 and 2^1 seconds between them, and then reports the
\* failure.
C1_Original ==
  obs.raised = "fetch" =>
    /\ Len(net) >= 5
    /\ SubSeq(net, 1, 5) = <<Get(obs.url, MainTimeout), Sleep(1),
                             Get(obs.url, MainTimeout), Sleep(2),
                             Get(obs.url, MainTimeout)>>

\* C1 as amended: when the GET of the main page fails (transport error,
\* timeout or non-2xx), the fetch makes exactly one attempt, with no retry, no
\* sleep and no contact-page request, and reports the failure with no content
\* right after it; the only sleep that follows is the throttle after the
\* record is written.
C1_SingleAttempt ==
  obs.raised = "fetch" =>
    /\ obs.returned /\ obs.fetch \in FetchFailures
    /\ pc \in {"throttle", "loop", "done", "failed"}
    /\ SelectSeq(net, IsGet) = <<Get(obs.url, MainTimeout)>>
    /\ net[1] = Get(obs.url, MainTimeout)
    /\ pc = "throttle" => net = <<Get(obs.url, MainTimeout)>>
    /\ Len(net) <= 2
    /\ email = PyNone /\ phone = PyNone /\ about_text = PyNone

C1_Witness ==
  /\ obs.raised = "fetch" /\ obs.fetch = "http_error" /\ pc = "throttle"
  /\ net = <<Get(obs.url, MainTimeout)>> /\ about_text = PyNone

C9_Paths ==
  << <<"/", "c", "o", "n", "t", "a", "c", "t">>,
     <<"/", "c", "o", "n", "t", "a", "c", "t", "-", "u", "s">>,
     <<"/", "a", "b", "o", "u", "t">>,
     <<"/", "a", "b", "o", "u", "t", "-", "u", "s">> >>

Gets == SelectSeq(net, IsGet)
Probes == Len(Gets) - 1

\* C9: the requests of one scrape are the main page, then /contact,
\* /contact-us, /about, /about-us in that order; a contact page is requested
\* only when the main page was fetched and held no email; a further page is
\* requested only when the page before it failed, was not ok or held no email;
\* the email of the first page that is ok and holds one is the result; failed
\* probes do not fail the URL.
C9_Probing ==
  net # <<>> =>
    /\ net[1] = Get(obs.url, MainTimeout) /\ Gets[1] = net[1]
    /\ Probes <= 4
    /\ \A j \in 1..Probes :
         Gets[j + 1] = Get(RStripSlash(obs.url) \o C9_Paths[j], ContactTimeout)
    /\ Probes >= 1 =>
         obs.fetch = "ok" /\ obs.raised # "parse" /\ ~Truthy(obs.main_email)
    /\ pc = "probe" =>
         /\ k = Probes /\ Probes >= 1 /\ ~Truthy(s_email)
         /\ Probes >= 2 => ~ProbeFound(obs.last)
    /\ obs.returned /\ obs.fetch = "ok" /\ obs.raised # "parse"
         /\ ~Truthy(obs.main_email) =>
         /\ Probes >= 1
         /\ IF ProbeFound(obs.last) THEN obs.email = PyStr(obs.last.emails[1])
            ELSE Probes = 4 /\ obs.email = PyNone
    /\ obs.returned /\ Truthy(obs.main_email) =>
         Probes = 0 /\ obs.email = obs.main_email
    /\ obs.returned /\ obs.raised = "none" =>
         email = obs.email /\ phone = obs.phone /\ about_text.t = "str"

C9_Witness ==
  /\ obs.returned /\ obs.raised = "none" /\ Probes = 3
  /\ ProbeFound(obs.last) /\ email = PyStr(obs.last.emails[1])
  /\ obs.url # RStripSlash(obs.url)
  /\ Gets[4].arg = RStripSlash(obs.url) \o C9_Paths[3]

StrEntries(n) == SelectSeq(SubSeq(urls, 1, n), IsStr)

\* The run failed after the loop, with a record for every string entry.
FailedAfterLoop ==
  i = Len(urls) /\ Len(results) = Len(StrEntries(Len(urls)))

\* C10: when the try block of scrape_website raises (the fetch, the parse or
\* the extraction), the caller gets (None, None, None), also when an email or
\* a phone had been found, and no exception; otherwise the about text is a
\* string of at most 1000 characters in which every whitespace character is a
\* single space between two other characters or at an end.
C10_AllOrNothing ==
  obs.returned =>
    /\ obs.raised # "none" =>
         /\ email = PyNone /\ phone = PyNone /\ about_text = PyNone
         /\ pc = "failed" => FailedAfterLoop
    /\ obs.raised = "none" =>
         /\ about_text.t = "str"
         /\ Len(about_text.v) <= AboutLimit
         /\ \A j \in 1..Len(about_text.v) :
              IsWs(about_text.v[j]) =>
                about_text.v[j] = " " /\ j > 1 /\ ~IsWs(about_text.v[j - 1])

C10_Witness ==
  /\ obs.returned /\ obs.raised = "extract"
  /\ Truthy(obs.email) /\ Truthy(obs.phone)
  /\ email = PyNone /\ phone = PyNone /\ about_text = PyNone
  /\ pc = "throttle"

\* The about text was cut at the limit, after a collapsed run of whitespace.
C10_Truncated ==
  /\ obs.returned /\ obs.raised = "none"
  /\ Len(about_text.v) = AboutLimit /\ about_text.v[AboutLimit] = " "

\* ------------------------------------------------------------ C2, C5, C6 (main)
FieldNames == {"Website", "Domain", "Email", "Phone", "AboutText", "OutreachMessage"}

HasContact(r) == r.Email.v # <<>> \/ r.Phone.v # <<>>

ContactRecords == Len(SelectSeq(results, HasContact))

\* C2: a run over one string URL whose page fetch errors ends with one record
\* whose Email, Phone and AboutText are empty and whose OutreachMessage is the
\* fallback message, and with processedCount = 1 and contactsFound = 0.
C2_FallbackRecord ==
  pc = "done" /\ Len(urls) = 1 /\ IsStr(urls[1]) /\ obs.fetch = "error" =>
    /\ Len(results) = 1
    /\ results[1].Email = PyStr(<<>>)
    /\ results[1].Phone = PyStr(<<>>)
    /\ results[1].AboutText = PyStr(<<>>)
    /\ results[1].OutreachMessage = PyStr(FallbackMessage(results[1].Domain.v))
    /\ results[1].OutreachMessage.v # <<>>
    /\ stats = [processedCount |-> 1, contactsFound |-> 0]

\* C5: no failure of a URL ends the run; the records are the string entries
\* taken so far, in input order (after the loop: all of them), the other
\* entries are skipped, and every record has the six fields, each a string.
C5_OneRecordPerUrl ==
  /\ pc = "failed" => urls = <<>> \/ FailedAfterLoop
  /\ LET taken == IF pc \in {"main_get", "probe", "generate"} THEN i - 1 ELSE i
     IN [j \in 1..Len(results) |-> results[j].Website] = StrEntries(taken)
  /\ \A j \in 1..Len(results) :
       /\ DOMAIN results[j] = FieldNames
       /\ \A f \in FieldNames : results[j][f].t = "str"

C5_Witness ==
  /\ pc = "done" /\ Len(urls) = 2 /\ urls[1] = PyNaN
  /\ obs.raised = "extract" /\ Truthy(obs.email)
  /\ Len(results) = 1 /\ results[1].Website = urls[2]
  /\ results[1].Email = PyStr(<<>>) /\ results[1].OutreachMessage = PyStr(<<>>)

\* C6 as claimed: at every point of the run contactsFound is the number of
\* records with an email or a phone, processedCount is the number of string
\* entries taken, and contactsFound <= processedCount.
C6_Original ==
  /\ contacts_found = ContactRecords
  /\ processed_count = Len(StrEntries(i))
  /\ contacts_found <= processed_count

\* C6 as amended: the same, except while the message of a URL is being
\* generated: its record is not written yet, and contactsFound already counts
\* the URL when its email or phone was found.
C6_Counts ==
  LET pending == IF pc = "generate" /\ (Truthy(email) \/ Truthy(phone)) THEN 1 ELSE 0
  IN /\ contacts_found = ContactRecords + pending
     /\ processed_count = Len(StrEntries(i))
     /\ contacts_found <= processed_count
     /\ pc = "done" =>
          stats = [processedCount |-> processed_count, contactsFound |-> contacts_found]

C6_Witness ==
  /\ pc = "throttle" /\ Len(results) = 2
  /\ HasContact(results[2]) /\ ~HasContact(results[1])
  /\ results[2].Email = PyStr(<<>>)
  /\ contacts_found = 1 /\ processed_count = 2

====
